---- MODULE Spec2Model ----
(***************************************************************************)
(* A model of janus.Queue (src/janus/__init__.py): one buffer shared by a  *)
(* blocking facade (sync_q, called from threads) and a suspending facade   *)
(* (async_q, called from tasks of one event loop).                         *)
(*                                                                         *)
(* Granularity.  A thread is preemptible everywhere, but everything it     *)
(* does between acquiring and releasing _sync_mutex is one step: nothing   *)
(* else that takes the mutex can interleave there.  A task runs on the     *)
(* loop thread from one await to the next; `running` names the task that   *)
(* occupies the loop thread, and no other task or loop callback steps      *)
(* while it is set.  The places where a task has released _sync_mutex but  *)
(* still occupies the loop thread are separate steps, because threads run  *)
(* in between.                                                             *)
(***************************************************************************)
EXTENDS Integers, Sequences, FiniteSets, TLC

\* ------------------------------------------------------------------ bounds
MaxOps == 3            \* operations started in one behaviour
MaxItem == 2           \* items are 1..MaxItem
MaxCap == 1            \* maxsize is drawn from 0..MaxCap (0 = unbounded)
MaxOpsPQ == 6          \* operations started in one behaviour of SpecPQ
MaxPrio == 3           \* the items of SpecPQ are 1..MaxPrio
MaxOpsClose == 5       \* operations started in one behaviour of SpecClose

Threads == {"t1", "t2"}
Tasks == {"a1", "a2"}
\* a task of a second event loop, running in that loop's own thread
Foreign == {"b1"}
Procs == Threads \cup Tasks \cup Foreign
Items == 1..MaxItem
PrioItems == 1..MaxPrio

FREE == "free"
NoLoop == "none"
TheLoop == "loop"
OtherLoop == "loop2"
NoTask == "nobody"

VARIABLES
    kind,                     \* the class of the queue: Queue or PriorityQueue
    maxsize,                  \* Queue._maxsize
    queue,                    \* Queue._queue
    unfinished_tasks,         \* Queue._unfinished_tasks
    finished,                 \* Queue._finished (asyncio.Event) is set
    closing,                  \* Queue._closing
    loop,                     \* Queue._loop
    pending,                  \* Queue._pending, as counts per job kind and state
    calls,                    \* callbacks handed to loop.call_soon_threadsafe
    sync_mutex,               \* holder of Queue._sync_mutex
    async_mutex,              \* holder of Queue._async_mutex
    running,                  \* the task occupying the loop thread
    sync_not_empty_waiting,
    sync_not_full_waiting,
    async_not_empty_waiting,
    async_not_full_waiting,
    sync_not_empty,           \* threads in _sync_not_empty.wait(), oldest first
    sync_not_full,            \* threads in _sync_not_full.wait(), oldest first
    async_not_empty,          \* tasks in _async_not_empty.wait(), oldest first
    async_not_full,           \* tasks in _async_not_full.wait(), oldest first
    pc,                       \* each caller's position in its call
    item, mode,               \* the arguments of the call in progress
    res,                      \* the outcome of each caller's last call: a tag
                              \* and a value (the item a get returned, or
                              \* _unfinished_tasks as a returning join read it)
    slept,                    \* the call went through a wait
    putLog, getLog, nDone,    \* history: committed puts, gets, task_dones
    nOps

fixed == <<kind, maxsize>>
core == <<queue, unfinished_tasks, putLog, getLog, nDone>>
flags == <<finished, closing, loop>>
jobs == <<pending, calls>>
locks == <<sync_mutex, async_mutex>>
counts == <<sync_not_empty_waiting, sync_not_full_waiting,
            async_not_empty_waiting, async_not_full_waiting>>
syncq == <<sync_not_empty, sync_not_full>>
asyncq == <<async_not_empty, async_not_full>>
conds == <<sync_not_empty, sync_not_full, async_not_empty, async_not_full>>
call == <<item, mode>>
vars == <<fixed, core, flags, jobs, locks, running, counts, conds,
          pc, call, res, slept, nOps>>

\* ----------------------------------------------------------------- helpers
JobKinds == {"sync_ne", "sync_nf", "async_ne", "async_nf"}
NoJobs == [k \in JobKinds |-> [sched |-> 0, done |-> 0, cancelled |-> 0]]

Ret(tag, v) == [tag |-> tag, val |-> v]
NoRes == Ret("none", 0)

Idle(p) == pc[p] \in {"idle", "done"}

Without(s, e) == SelectSeq(s, LAMBDA x : x # e)

\* Condition.wait() returns in the woken thread or task at this position.
WokenPc(at) ==
    CASE at = "sp_wait" -> "sp_woken"
      [] at = "sg_wait" -> "sg_woken"
      [] at = "ap_wait" -> "ap_notified"
      [] at = "ag_wait" -> "ag_notified"
      [] OTHER -> at

\* Condition.notify(): the oldest waiter of the condition is woken.
Notified(cond, f) ==
    IF cond = <<>> THEN f ELSE [f EXCEPT ![Head(cond)] = WokenPc(f[Head(cond)])]

\* ... and leaves the condition's waiters.
Woken(cond) == IF cond = <<>> THEN cond ELSE Tail(cond)

\* Queue._qsize
Qsize == Len(queue)

\* heapq._siftdown(heap, startpos, pos) with newitem = heap[pos]: the parents
\* larger than the new item move down, the new item takes the place reached.
\* (The heap is a sequence: position i has its parent at i \div 2 and its
\* children at 2i and 2i+1.)
RECURSIVE SiftDown(_, _, _, _)
SiftDown(h, startpos, pos, newitem) ==
    IF pos > startpos /\ newitem < h[pos \div 2]
    THEN SiftDown([h EXCEPT ![pos] = h[pos \div 2]], startpos, pos \div 2, newitem)
    ELSE [h EXCEPT ![pos] = newitem]

\* heapq._siftup(heap, pos): the smaller child moves up until a leaf is
\* reached, the item taken from the root goes there and is sifted back.
RECURSIVE SiftUp(_, _, _, _)
SiftUp(h, startpos, pos, newitem) ==
    LET childpos == 2 * pos
        rightpos == childpos + 1
        smaller == IF rightpos <= Len(h) /\ ~(h[childpos] < h[rightpos])
                   THEN rightpos ELSE childpos
    IN IF childpos <= Len(h)
       THEN SiftUp([h EXCEPT ![pos] = h[smaller]], startpos, smaller, newitem)
       ELSE SiftDown([h EXCEPT ![pos] = newitem], startpos, pos, newitem)

\* PriorityQueue._put: heappush(self._heap_queue, item)
HeapPushNoSift(h, x) == Append(h, x)
HeapPush(h, x) == SiftDown(Append(h, x), 1, Len(h) + 1, x)

\* PriorityQueue._get: the heap heappop(self._heap_queue) leaves
HeapPopRest(h) ==
    LET lastelt == h[Len(h)]
        rest == SubSeq(h, 1, Len(h) - 1)
    IN IF rest = <<>> THEN rest ELSE SiftUp([rest EXCEPT ![1] = lastelt], 1, 1, lastelt)

\* Queue._put (deque.append) and PriorityQueue._put
QPut(q, x) == IF kind = "priority" THEN HeapPush(q, x) ELSE Append(q, x)

\* Queue._get (deque.popleft) and PriorityQueue._get (heappop): the item
\* returned, the first of the deque or the root of the heap, and the buffer
\* left
QGetItemNewest(q) == q[Len(q)]
QGetItem(q) == Head(q)
QGetRestKeep(q) == q
QGetRest(q) == IF kind = "priority" THEN HeapPopRest(q) ELSE Tail(q)

\* Queue._check_closing raises
CheckClosingNever == FALSE
CheckClosing == closing

\* the fullness test of put: parent._maxsize > 0 and _qsize() >= _maxsize
IsFullOffByOne == maxsize > 0 /\ Qsize > maxsize
IsFull == maxsize > 0 /\ Qsize >= maxsize

\* Queue._call_soon_threadsafe: dropped while the queue has no loop
CallSoonThreadsafe(cs, cb) == IF loop = NoLoop THEN cs ELSE Append(cs, cb)

\* run_in_executor / create_task plus _pending.append
NotSubmitted(pend, k) == pend
Submitted(pend, k) == [pend EXCEPT ![k].sched = @ + 1]

\* Queue._get_loop on the one event loop of the model
GetLoop == IF loop = NoLoop THEN TheLoop ELSE loop

\* Queue.__init__ of class k with maxsize drawn from caps; _loop is set by the
\* constructor on Python < 3.10 and left None on later versions.
Constructed(k, caps) ==
    /\ kind = k
    /\ maxsize \in caps
    /\ queue = <<>>
    /\ unfinished_tasks = 0
    /\ finished = TRUE
    /\ closing = FALSE
    /\ loop \in {NoLoop, TheLoop}
    /\ pending = NoJobs
    /\ calls = <<>>
    /\ sync_mutex = FREE
    /\ async_mutex = FREE
    /\ running = NoTask
    /\ sync_not_empty_waiting = 0
    /\ sync_not_full_waiting = 0
    /\ async_not_empty_waiting = 0
    /\ async_not_full_waiting = 0
    /\ sync_not_empty = <<>>
    /\ sync_not_full = <<>>
    /\ async_not_empty = <<>>
    /\ async_not_full = <<>>
    /\ pc = [p \in Procs |-> "idle"]
    /\ item = [p \in Procs |-> 0]
    /\ mode = [p \in Procs |-> "none"]
    /\ res = [p \in Procs |-> NoRes]
    /\ slept = [p \in Procs |-> FALSE]
    /\ putLog = <<>>
    /\ getLog = <<>>
    /\ nDone = 0
    /\ nOps = 0

Init == Constructed("fifo", 0..MaxCap)


\* ------------------------------------------------------- blocking facade
SyncOps == {"put", "get", "task_done", "join", "close"}
\* block=False | block=True, timeout=None | timeout >= 0 | timeout < 0
Modes == {"nowait", "block", "timed", "neg"}

SyncArgs(o, it, m) ==
    /\ o = "put" <=> it # 0
    /\ m \in (IF o \in {"put", "get"} THEN Modes ELSE {"none"})

\* The arguments of a call are dropped when the call ends.
Settled(p) ==
    /\ item' = IF pc'[p] = "done" THEN [item EXCEPT ![p] = 0] ELSE item
    /\ mode' = IF pc'[p] = "done" THEN [mode EXCEPT ![p] = "none"] ELSE mode

SyncEntry(o) ==
    CASE o = "put" -> "sp_lock"
      [] o = "get" -> "sg_lock"
      [] o = "task_done" -> "std_lock"
      [] o = "join" -> "sj_lock"
      [] o = "close" -> "cl_lock"

\* A thread calls sync_q.put/get/task_done/join or Queue.close: the call's
\* _check_closing(), made before the mutex is taken (close has none).
SyncCall(t, o, it, m) ==
    /\ t \in Threads /\ Idle(t)
    /\ o \in SyncOps /\ SyncArgs(o, it, m)
    /\ nOps' = nOps + 1
    /\ slept' = [slept EXCEPT ![t] = FALSE]
    /\ IF o # "close" /\ CheckClosing
       THEN /\ pc' = [pc EXCEPT ![t] = "done"]
            /\ res' = [res EXCEPT ![t] = Ret("closed", 0)]
            /\ UNCHANGED call
       ELSE /\ pc' = [pc EXCEPT ![t] = SyncEntry(o)]
            /\ res' = [res EXCEPT ![t] = NoRes]
            /\ item' = [item EXCEPT ![t] = it]
            /\ mode' = [mode EXCEPT ![t] = m]
    /\ UNCHANGED <<fixed, core, flags, jobs, locks, running, counts, conds>>

\* `finally: parent._sync_not_full_waiting -= 1` (or _sync_not_empty_waiting)
\* of a thread coming back from the condition's wait(): the decrement it owes.
WaitExitForgotten(at) == 0
WaitExit(at) == IF at \in {"sp_lock", "sg_lock"} THEN 0 ELSE 1

\* _SyncQueueProxy.put under `with parent._sync_not_full`, from the lock's
\* acquisition or from the return of _sync_not_full.wait() (whose finally
\* takes the thread out of _sync_not_full_waiting) to the next wait or the end.
\* `late`: the deadline of a timed put has passed at this reading of the clock.
SyncPutEnter(t, late) ==
    /\ t \in Threads /\ pc[t] \in {"sp_lock", "sp_woken", "sp_expired"}
    /\ sync_mutex = FREE
    /\ LET back == WaitExit(pc[t])
           nfw == sync_not_full_waiting - back
           expired == pc[t] = "sp_expired" \/ late
       IN
       IF maxsize > 0 /\ mode[t] = "neg"
       THEN /\ pc' = [pc EXCEPT ![t] = "done"]
            /\ res' = [res EXCEPT ![t] = Ret("badtimeout", 0)]
            /\ sync_not_full_waiting' = nfw
            /\ UNCHANGED <<core, finished, jobs, syncq, slept>>
       ELSE IF IsFull /\ (mode[t] = "nowait" \/ (mode[t] = "timed" /\ expired))
       THEN /\ pc' = [pc EXCEPT ![t] = "done"]
            /\ res' = [res EXCEPT ![t] = Ret("full", 0)]
            /\ sync_not_full_waiting' = nfw
            /\ UNCHANGED <<core, finished, jobs, syncq, slept>>
       ELSE IF IsFull
       THEN /\ pc' = [pc EXCEPT ![t] = "sp_wait"]
            /\ sync_not_full_waiting' = nfw + 1
            /\ sync_not_full' = Append(sync_not_full, t)
            /\ slept' = [slept EXCEPT ![t] = TRUE]
            /\ UNCHANGED <<core, finished, jobs, res, sync_not_empty>>
       ELSE \* parent._put_internal(item), then the two notifications
            /\ queue' = QPut(queue, item[t])
            /\ unfinished_tasks' = unfinished_tasks + 1
            /\ finished' = FALSE
            /\ putLog' = Append(putLog, item[t])
            /\ pc' = [(IF sync_not_empty_waiting > 0
                       THEN Notified(sync_not_empty, pc) ELSE pc)
                      EXCEPT ![t] = "done"]
            /\ sync_not_empty' = IF sync_not_empty_waiting > 0
                                 THEN Woken(sync_not_empty) ELSE sync_not_empty
            /\ calls' = IF async_not_empty_waiting > 0
                        THEN CallSoonThreadsafe(calls, "mk_async_ne") ELSE calls
            /\ res' = [res EXCEPT ![t] = Ret("ok", 0)]
            /\ sync_not_full_waiting' = nfw
            /\ UNCHANGED <<getLog, nDone, pending, sync_not_full, slept>>
    /\ Settled(t)
    /\ UNCHANGED <<fixed, closing, loop, locks, running, sync_not_empty_waiting,
                   async_not_empty_waiting, async_not_full_waiting, asyncq,
                   nOps>>

\* _SyncQueueProxy.get under `with parent._sync_not_empty`, likewise.
SyncGetEnter(t, late) ==
    /\ t \in Threads /\ pc[t] \in {"sg_lock", "sg_woken", "sg_expired"}
    /\ sync_mutex = FREE
    /\ LET back == WaitExit(pc[t])
           new == sync_not_empty_waiting - back
           expired == pc[t] = "sg_expired" \/ late
       IN
       IF mode[t] = "neg"
       THEN /\ pc' = [pc EXCEPT ![t] = "done"]
            /\ res' = [res EXCEPT ![t] = Ret("badtimeout", 0)]
            /\ sync_not_empty_waiting' = new
            /\ UNCHANGED <<core, jobs, syncq, slept>>
       ELSE IF Qsize = 0 /\ (mode[t] = "nowait" \/ (mode[t] = "timed" /\ expired))
       THEN /\ pc' = [pc EXCEPT ![t] = "done"]
            /\ res' = [res EXCEPT ![t] = Ret("empty", 0)]
            /\ sync_not_empty_waiting' = new
            /\ UNCHANGED <<core, jobs, syncq, slept>>
       ELSE IF Qsize = 0
       THEN /\ pc' = [pc EXCEPT ![t] = "sg_wait"]
            /\ sync_not_empty_waiting' = new + 1
            /\ sync_not_empty' = Append(sync_not_empty, t)
            /\ slept' = [slept EXCEPT ![t] = TRUE]
            /\ UNCHANGED <<core, jobs, res, sync_not_full>>
       ELSE \* item = parent._get(), then the two notifications
            /\ queue' = QGetRest(queue)
            /\ getLog' = Append(getLog, QGetItem(queue))
            /\ pc' = [(IF sync_not_full_waiting > 0
                       THEN Notified(sync_not_full, pc) ELSE pc)
                      EXCEPT ![t] = "done"]
            /\ sync_not_full' = IF sync_not_full_waiting > 0
                                THEN Woken(sync_not_full) ELSE sync_not_full
            /\ calls' = IF async_not_full_waiting > 0
                        THEN CallSoonThreadsafe(calls, "mk_async_nf") ELSE calls
            /\ res' = [res EXCEPT ![t] = Ret("item", QGetItem(queue))]
            /\ sync_not_empty_waiting' = new
            /\ UNCHANGED <<unfinished_tasks, putLog, nDone, pending,
                           sync_not_empty, slept>>
    /\ Settled(t)
    /\ UNCHANGED <<fixed, flags, locks, running, sync_not_full_waiting,
                   async_not_empty_waiting, async_not_full_waiting, asyncq,
                   nOps>>

\* Condition.wait(remaining) of a timed put or get returns on its timeout.
SyncWaitTimeout(t) ==
    /\ t \in Threads /\ mode[t] = "timed" /\ pc[t] \in {"sp_wait", "sg_wait"}
    /\ pc' = [pc EXCEPT ![t] = IF pc[t] = "sp_wait" THEN "sp_expired" ELSE "sg_expired"]
    /\ sync_not_full' = Without(sync_not_full, t)
    /\ sync_not_empty' = Without(sync_not_empty, t)
    /\ UNCHANGED <<fixed, core, flags, jobs, locks, running, counts, asyncq,
                   call, res, slept, nOps>>


\* Event.set(): every task suspended in _finished.wait() becomes ready.
FinishedSet(f) == [p \in DOMAIN f |-> IF f[p] = "aj_wait" THEN "aj_ready" ELSE f[p]]

\* _all_tasks_done.notify_all(): every thread in sync_q.join()'s wait is woken.
NotifyAllDone(f) == [p \in DOMAIN f |-> IF f[p] = "sj_wait" THEN "sj_woken" ELSE f[p]]

\* sync_q.task_done raises ValueError: `unfinished = _unfinished_tasks - 1 < 0`
SyncTooManyNever(unf) == FALSE
SyncTooMany(unf) == unf - 1 < 0

\* _SyncQueueProxy.task_done under `with parent._all_tasks_done`.
SyncTaskDone(t) ==
    /\ t \in Threads /\ pc[t] = "std_lock"
    /\ sync_mutex = FREE
    /\ IF SyncTooMany(unfinished_tasks)
       THEN /\ pc' = [pc EXCEPT ![t] = "done"]
            /\ res' = [res EXCEPT ![t] = Ret("toomany", 0)]
            /\ UNCHANGED <<unfinished_tasks, nDone, calls>>
       ELSE /\ unfinished_tasks' = unfinished_tasks - 1
            /\ nDone' = nDone + 1
            /\ pc' = [(IF unfinished_tasks - 1 <= 0 THEN NotifyAllDone(pc) ELSE pc)
                      EXCEPT ![t] = "done"]
            /\ calls' = IF unfinished_tasks - 1 <= 0
                        THEN CallSoonThreadsafe(calls, "finished_set") ELSE calls
            /\ res' = [res EXCEPT ![t] = Ret("acked", 0)]
    /\ Settled(t)
    /\ UNCHANGED <<fixed, queue, putLog, getLog, flags, pending, locks, running,
                   counts, conds, slept, nOps>>

\* sync_q.join's loop test `while parent._unfinished_tasks`
SyncJoinWaitsOverOne(unf) == unf > 1
SyncJoinWaits(unf) == unf # 0

\* _SyncQueueProxy.join under `with parent._all_tasks_done`, from the lock's
\* acquisition or from the return of _all_tasks_done.wait(), which is followed
\* by _check_closing().
SyncJoinEnter(t) ==
    /\ t \in Threads /\ pc[t] \in {"sj_lock", "sj_woken"}
    /\ sync_mutex = FREE
    /\ IF pc[t] = "sj_woken" /\ CheckClosing
       THEN /\ pc' = [pc EXCEPT ![t] = "done"]
            /\ res' = [res EXCEPT ![t] = Ret("closed", 0)]
            /\ UNCHANGED slept
       ELSE IF SyncJoinWaits(unfinished_tasks)
       THEN /\ pc' = [pc EXCEPT ![t] = "sj_wait"]
            /\ slept' = [slept EXCEPT ![t] = TRUE]
            /\ UNCHANGED res
       ELSE /\ pc' = [pc EXCEPT ![t] = "done"]
            /\ res' = [res EXCEPT ![t] = Ret("joined", unfinished_tasks)]
            /\ UNCHANGED slept
    /\ Settled(t)
    /\ UNCHANGED <<fixed, core, flags, jobs, locks, running, counts, conds,
                   nOps>>

\* fut.cancel() for every fut in _pending: a job not yet done is cancelled.
Cancelled(pend) ==
    [k \in DOMAIN pend |->
        [sched |-> 0, done |-> pend[k].done,
         cancelled |-> pend[k].cancelled + pend[k].sched]]

\* Queue.close under `with self._sync_mutex`, called by a thread or by a task.
Close(p) ==
    /\ p \in Procs /\ pc[p] = "cl_lock"
    /\ sync_mutex = FREE
    /\ closing' = TRUE
    /\ pending' = Cancelled(pending)
    /\ finished' = TRUE
    /\ pc' = [NotifyAllDone(FinishedSet(pc)) EXCEPT ![p] = "done"]
    /\ res' = [res EXCEPT ![p] = Ret("shut", 0)]
    /\ running' = IF p \in Tasks THEN NoTask ELSE running
    /\ Settled(p)
    /\ UNCHANGED <<fixed, core, loop, calls, locks, counts, conds, slept, nOps>>


\* ----------------------------------------------------- suspending facade
AsyncOps == {"put", "put_nowait", "get", "get_nowait", "task_done", "join", "close"}

AsyncEntry(o) ==
    CASE o = "put" -> "ap_enter"
      [] o = "get" -> "ag_enter"
      [] o = "put_nowait" -> "apn_lock"
      [] o = "get_nowait" -> "agn_lock"
      [] o = "task_done" -> "atd_lock"
      [] o = "join" -> "aj_lock"
      [] o = "close" -> "cl_lock"

\* A task, scheduled on the loop thread, calls async_q.put/put_nowait/get/
\* get_nowait/task_done/join or Queue.close: the call's _check_closing()
\* (join and close have none here) and, for put and get, the entry of
\* `async with parent._async_not_full/_async_not_empty`, which takes
\* _async_mutex.  No task keeps _async_mutex over a suspension (Condition.wait
\* releases it), so it is free whenever the loop thread is (LockDiscipline)
\* and its acquisition never suspends the caller.
AsyncCall(a, o, it) ==
    /\ a \in Tasks /\ Idle(a) /\ running = NoTask
    /\ async_mutex = FREE
    /\ o \in AsyncOps /\ (o \in {"put", "put_nowait"} <=> it # 0)
    /\ nOps' = nOps + 1
    /\ slept' = [slept EXCEPT ![a] = FALSE]
    /\ item' = IF o \notin {"join", "close"} /\ CheckClosing
               THEN item ELSE [item EXCEPT ![a] = it]
    /\ UNCHANGED mode
    /\ IF o \notin {"join", "close"} /\ CheckClosing
       THEN /\ pc' = [pc EXCEPT ![a] = "done"]
            /\ res' = [res EXCEPT ![a] = Ret("closed", 0)]
            /\ UNCHANGED <<running, async_mutex>>
       ELSE /\ pc' = [pc EXCEPT ![a] = AsyncEntry(o)]
            /\ res' = [res EXCEPT ![a] = NoRes]
            /\ running' = a
            /\ async_mutex' = IF o \in {"put", "get"} THEN a ELSE async_mutex
    /\ UNCHANGED <<fixed, core, flags, jobs, sync_mutex, counts, conds>>

\* _AsyncQueueProxy.put from parent._sync_mutex.acquire() to its release():
\* either the fullness test sends the task to the wait (the mutex is released
\* first, the task keeps the loop thread), or the item is committed.
AsyncPutEnter(a) ==
    /\ a \in Tasks /\ pc[a] = "ap_enter" /\ running = a
    /\ sync_mutex = FREE
    /\ loop' = GetLoop
    /\ IF IsFull
       THEN /\ pc' = [pc EXCEPT ![a] = "ap_rel"]
            /\ UNCHANGED <<core, finished, pending, async_mutex, running,
                           async_not_empty, res>>
       ELSE /\ queue' = QPut(queue, item[a])
            /\ unfinished_tasks' = unfinished_tasks + 1
            /\ finished' = FALSE
            /\ putLog' = Append(putLog, item[a])
            /\ pc' = [(IF async_not_empty_waiting > 0
                       THEN Notified(async_not_empty, pc) ELSE pc)
                      EXCEPT ![a] = "done"]
            /\ async_not_empty' = IF async_not_empty_waiting > 0
                                  THEN Woken(async_not_empty) ELSE async_not_empty
            /\ pending' = IF sync_not_empty_waiting > 0
                          THEN Submitted(pending, "sync_ne") ELSE pending
            /\ res' = [res EXCEPT ![a] = Ret("ok", 0)]
            /\ async_mutex' = FREE
            /\ running' = NoTask
            /\ UNCHANGED <<getLog, nDone>>
    /\ Settled(a)
    /\ UNCHANGED <<fixed, closing, calls, sync_mutex, counts, syncq,
                   async_not_full, slept, nOps>>

\* _AsyncQueueProxy.get from parent._sync_mutex.acquire() to its release().
AsyncGetEnter(a) ==
    /\ a \in Tasks /\ pc[a] = "ag_enter" /\ running = a
    /\ sync_mutex = FREE
    /\ loop' = GetLoop
    /\ IF Qsize = 0
       THEN /\ pc' = [pc EXCEPT ![a] = "ag_rel"]
            /\ UNCHANGED <<core, pending, async_mutex, running, async_not_full, res>>
       ELSE /\ queue' = QGetRest(queue)
            /\ getLog' = Append(getLog, QGetItem(queue))
            /\ pc' = [(IF async_not_full_waiting > 0
                       THEN Notified(async_not_full, pc) ELSE pc)
                      EXCEPT ![a] = "done"]
            /\ async_not_full' = IF async_not_full_waiting > 0
                                 THEN Woken(async_not_full) ELSE async_not_full
            /\ pending' = IF sync_not_full_waiting > 0
                          THEN Submitted(pending, "sync_nf") ELSE pending
            /\ res' = [res EXCEPT ![a] = Ret("item", QGetItem(queue))]
            /\ async_mutex' = FREE
            /\ running' = NoTask
            /\ UNCHANGED <<unfinished_tasks, putLog, nDone>>
    /\ Settled(a)
    /\ UNCHANGED <<fixed, finished, closing, calls, sync_mutex, counts, syncq,
                   async_not_empty, slept, nOps>>

\* After the release of _sync_mutex: `_async_not_full_waiting += 1` (or
\* _async_not_empty_waiting) and the suspension in Condition.wait(), which
\* releases _async_mutex.
AsyncSuspend(a) ==
    /\ a \in Tasks /\ pc[a] \in {"ap_rel", "ag_rel"} /\ running = a
    /\ IF pc[a] = "ap_rel"
       THEN /\ async_not_full_waiting' = async_not_full_waiting + 1
            /\ async_not_full' = Append(async_not_full, a)
            /\ pc' = [pc EXCEPT ![a] = "ap_wait"]
            /\ UNCHANGED <<async_not_empty_waiting, async_not_empty>>
       ELSE /\ async_not_empty_waiting' = async_not_empty_waiting + 1
            /\ async_not_empty' = Append(async_not_empty, a)
            /\ pc' = [pc EXCEPT ![a] = "ag_wait"]
            /\ UNCHANGED <<async_not_full_waiting, async_not_full>>
    /\ slept' = [slept EXCEPT ![a] = TRUE]
    /\ async_mutex' = FREE
    /\ running' = NoTask
    /\ UNCHANGED <<fixed, core, flags, jobs, sync_mutex, sync_not_empty_waiting,
                   sync_not_full_waiting, syncq, call, res, nOps>>

\* `finally: parent._async_not_full_waiting -= 1` (or _async_not_empty_waiting)
\* of a task leaving the condition's wait(), by a notification or by its
\* cancellation.
AsyncWaitExitLost(n) == n
AsyncWaitExit(n) == n - 1

\* The notified task resumes: Condition.wait() takes _async_mutex again and
\* the finally of the put or get takes the task out of the waiter count.
AsyncResume(a) ==
    /\ a \in Tasks /\ pc[a] \in {"ap_notified", "ag_notified"}
    /\ running = NoTask /\ async_mutex = FREE
    /\ async_mutex' = a
    /\ running' = a
    /\ IF pc[a] = "ap_notified"
       THEN /\ async_not_full_waiting' = AsyncWaitExit(async_not_full_waiting)
            /\ pc' = [pc EXCEPT ![a] = "ap_enter"]
            /\ UNCHANGED async_not_empty_waiting
       ELSE /\ async_not_empty_waiting' = AsyncWaitExit(async_not_empty_waiting)
            /\ pc' = [pc EXCEPT ![a] = "ag_enter"]
            /\ UNCHANGED async_not_full_waiting
    /\ UNCHANGED <<fixed, core, flags, jobs, sync_mutex, sync_not_empty_waiting,
                   sync_not_full_waiting, conds, call, res, slept, nOps>>

\* A task suspended in the wait of put or get, notified or not, is cancelled
\* and resumed by the loop: Condition.wait() takes the task's future out of
\* the condition's waiters, takes _async_mutex again and raises
\* CancelledError; the finally of the put or get takes the task out of the
\* waiter count; `locked` is False, so the outer finally leaves _sync_mutex
\* alone, and `async with` releases _async_mutex.
AsyncCancel(a) ==
    /\ a \in Tasks /\ pc[a] \in {"ap_wait", "ap_notified", "ag_wait", "ag_notified"}
    /\ running = NoTask /\ async_mutex = FREE
    /\ IF pc[a] \in {"ap_wait", "ap_notified"}
       THEN /\ async_not_full_waiting' = AsyncWaitExit(async_not_full_waiting)
            /\ UNCHANGED async_not_empty_waiting
       ELSE /\ async_not_empty_waiting' = AsyncWaitExit(async_not_empty_waiting)
            /\ UNCHANGED async_not_full_waiting
    /\ async_not_full' = Without(async_not_full, a)
    /\ async_not_empty' = Without(async_not_empty, a)
    /\ pc' = [pc EXCEPT ![a] = "done"]
    /\ res' = [res EXCEPT ![a] = Ret("cancelled", 0)]
    /\ Settled(a)
    /\ UNCHANGED <<fixed, core, flags, jobs, locks, running, sync_not_empty_waiting,
                   sync_not_full_waiting, syncq, slept, nOps>>

\* _AsyncQueueProxy.put_nowait under `with parent._sync_mutex`.
AsyncPutNowait(a) ==
    /\ a \in Tasks /\ pc[a] = "apn_lock" /\ running = a
    /\ sync_mutex = FREE
    /\ loop' = GetLoop
    /\ IF IsFull
       THEN /\ res' = [res EXCEPT ![a] = Ret("full", 0)]
            /\ UNCHANGED <<core, finished, pending>>
       ELSE /\ queue' = QPut(queue, item[a])
            /\ unfinished_tasks' = unfinished_tasks + 1
            /\ finished' = FALSE
            /\ putLog' = Append(putLog, item[a])
            /\ pending' =
                 LET p1 == IF async_not_empty_waiting > 0
                           THEN Submitted(pending, "async_ne") ELSE pending
                 IN IF sync_not_empty_waiting > 0
                    THEN Submitted(p1, "sync_ne") ELSE p1
            /\ res' = [res EXCEPT ![a] = Ret("ok", 0)]
            /\ UNCHANGED <<getLog, nDone>>
    /\ pc' = [pc EXCEPT ![a] = "done"]
    /\ running' = NoTask
    /\ Settled(a)
    /\ UNCHANGED <<fixed, closing, calls, locks, counts, conds, slept, nOps>>

\* _AsyncQueueProxy.get_nowait under `with parent._sync_mutex`; the empty
\* test comes before _get_loop().
AsyncGetNowait(a) ==
    /\ a \in Tasks /\ pc[a] = "agn_lock" /\ running = a
    /\ sync_mutex = FREE
    /\ IF Qsize = 0
       THEN /\ res' = [res EXCEPT ![a] = Ret("empty", 0)]
            /\ UNCHANGED <<core, loop, pending>>
       ELSE /\ loop' = GetLoop
            /\ queue' = QGetRest(queue)
            /\ getLog' = Append(getLog, QGetItem(queue))
            /\ pending' =
                 LET p1 == IF async_not_full_waiting > 0
                           THEN Submitted(pending, "async_nf") ELSE pending
                 IN IF sync_not_full_waiting > 0
                    THEN Submitted(p1, "sync_nf") ELSE p1
            /\ res' = [res EXCEPT ![a] = Ret("item", QGetItem(queue))]
            /\ UNCHANGED <<unfinished_tasks, putLog, nDone>>
    /\ pc' = [pc EXCEPT ![a] = "done"]
    /\ running' = NoTask
    /\ Settled(a)
    /\ UNCHANGED <<fixed, finished, closing, calls, locks, counts, conds,
                   slept, nOps>>

\* async_q.task_done raises ValueError: `parent._unfinished_tasks <= 0`
AsyncTooMany(unf) == unf <= 0

\* _AsyncQueueProxy.task_done under `with parent._all_tasks_done`.
AsyncTaskDone(a) ==
    /\ a \in Tasks /\ pc[a] = "atd_lock" /\ running = a
    /\ sync_mutex = FREE
    /\ IF AsyncTooMany(unfinished_tasks)
       THEN /\ pc' = [pc EXCEPT ![a] = "done"]
            /\ res' = [res EXCEPT ![a] = Ret("toomany", 0)]
            /\ UNCHANGED <<unfinished_tasks, nDone, finished>>
       ELSE /\ unfinished_tasks' = unfinished_tasks - 1
            /\ nDone' = nDone + 1
            /\ finished' = IF unfinished_tasks - 1 = 0 THEN TRUE ELSE finished
            /\ pc' = [(IF unfinished_tasks - 1 = 0
                       THEN NotifyAllDone(FinishedSet(pc)) ELSE pc)
                      EXCEPT ![a] = "done"]
            /\ res' = [res EXCEPT ![a] = Ret("acked", 0)]
    /\ running' = NoTask
    /\ Settled(a)
    /\ UNCHANGED <<fixed, queue, putLog, getLog, closing, loop, jobs, locks,
                   counts, conds, slept, nOps>>

\* async_q.join leaves its loop: `if parent._unfinished_tasks == 0: break`
AsyncJoinBreaks(unf) == unf = 0

\* _AsyncQueueProxy.join under `with parent._sync_mutex`: _check_closing() and
\* the test of _unfinished_tasks, entered by the running task or by a task
\* that _finished.set() made ready.
AsyncJoinEnter(a) ==
    /\ a \in Tasks
    /\ \/ pc[a] = "aj_lock" /\ running = a
       \/ pc[a] = "aj_ready" /\ running = NoTask
    /\ sync_mutex = FREE
    /\ IF CheckClosing
       THEN /\ pc' = [pc EXCEPT ![a] = "done"]
            /\ res' = [res EXCEPT ![a] = Ret("closed", 0)]
            /\ running' = NoTask
       ELSE IF AsyncJoinBreaks(unfinished_tasks)
       THEN /\ pc' = [pc EXCEPT ![a] = "done"]
            /\ res' = [res EXCEPT ![a] = Ret("joined", unfinished_tasks)]
            /\ running' = NoTask
       ELSE /\ pc' = [pc EXCEPT ![a] = "aj_poll"]
            /\ running' = a
            /\ UNCHANGED res
    /\ Settled(a)
    /\ UNCHANGED <<fixed, core, flags, jobs, locks, counts, conds, slept, nOps>>

\* `await parent._finished.wait()`: returns at once when the event is set
\* (the task keeps the loop thread), suspends the task otherwise.
AsyncJoinPoll(a) ==
    /\ a \in Tasks /\ pc[a] = "aj_poll" /\ running = a
    /\ IF finished
       THEN /\ pc' = [pc EXCEPT ![a] = "aj_lock"]
            /\ UNCHANGED <<running, slept>>
       ELSE /\ pc' = [pc EXCEPT ![a] = "aj_wait"]
            /\ running' = NoTask
            /\ slept' = [slept EXCEPT ![a] = TRUE]
    /\ UNCHANGED <<fixed, core, flags, jobs, locks, counts, conds, call, res, nOps>>


\* Queue._get_loop raises RuntimeError: the running loop is not the one the
\* queue is bound to.
WrongLoop(running_loop) == loop # NoLoop /\ running_loop # loop

\* A task of OtherLoop calls async_q.put/put_nowait/get/get_nowait once the
\* queue is bound (by the constructor or by an earlier call), in the thread of
\* its own loop: _check_closing(), then _get_loop() under _sync_mutex.
\* put_nowait and get_nowait hold the mutex by `with parent._sync_mutex`; put
\* and get call parent._sync_mutex.acquire() and then _get_loop() before
\* their `try:`, so that its exception passes by the `finally` that releases
\* the mutex; `async with` releases _async_mutex.  get_nowait tests the
\* buffer before it calls _get_loop().
ForeignCall(b, o) ==
    /\ b \in Foreign /\ Idle(b)
    /\ o \in {"put", "put_nowait", "get", "get_nowait"}
    /\ loop # NoLoop
    /\ nOps' = nOps + 1
    /\ pc' = [pc EXCEPT ![b] = "done"]
    /\ slept' = [slept EXCEPT ![b] = FALSE]
    /\ IF CheckClosing
       THEN /\ res' = [res EXCEPT ![b] = Ret("closed", 0)]
            /\ UNCHANGED sync_mutex
       ELSE /\ sync_mutex = FREE
            /\ o \in {"put", "get"} => async_mutex = FREE
            /\ IF o = "get_nowait" /\ Qsize = 0
               THEN /\ res' = [res EXCEPT ![b] = Ret("empty", 0)]
                    /\ UNCHANGED sync_mutex
               ELSE /\ WrongLoop(OtherLoop)
                    /\ res' = [res EXCEPT ![b] = Ret("wrongloop", 0)]
                    /\ sync_mutex' = IF o \in {"put", "get"} THEN b ELSE sync_mutex
    /\ UNCHANGED <<fixed, core, flags, jobs, async_mutex, running, counts, conds,
                   call>>

\* ------------------------------------------- loop callbacks and notifiers
\* The loop runs the oldest callback handed over by call_soon_threadsafe:
\* _make_async_not_empty_notifier, _make_async_not_full_notifier (create_task
\* plus _pending.append) or _finished.set.
LoopCall ==
    /\ running = NoTask /\ calls # <<>> /\ Head(calls) \notin Tasks
    /\ calls' = Tail(calls)
    /\ CASE Head(calls) = "mk_async_ne" ->
              /\ pending' = Submitted(pending, "async_ne")
              /\ UNCHANGED <<finished, pc>>
         [] Head(calls) = "mk_async_nf" ->
              /\ pending' = Submitted(pending, "async_nf")
              /\ UNCHANGED <<finished, pc>>
         [] Head(calls) = "finished_set" ->
              /\ finished' = TRUE
              /\ pc' = FinishedSet(pc)
              /\ UNCHANGED pending
    /\ UNCHANGED <<fixed, core, closing, loop, locks, running, counts, conds,
                   call, res, slept, nOps>>

\* Queue._async_not_empty_notifier / _async_not_full_notifier, a task of the
\* loop: `async with self._async_mutex: cond.notify()`.
AsyncNotifierRun(k) ==
    /\ k \in {"async_ne", "async_nf"}
    /\ running = NoTask /\ async_mutex = FREE
    /\ pending[k].sched > 0
    /\ pending' = [pending EXCEPT ![k].sched = @ - 1, ![k].done = @ + 1]
    /\ IF k = "async_ne"
       THEN /\ pc' = Notified(async_not_empty, pc)
            /\ async_not_empty' = Woken(async_not_empty)
            /\ UNCHANGED async_not_full
       ELSE /\ pc' = Notified(async_not_full, pc)
            /\ async_not_full' = Woken(async_not_full)
            /\ UNCHANGED async_not_empty
    /\ UNCHANGED <<fixed, core, flags, calls, locks, running, counts, syncq,
                   call, res, slept, nOps>>

\* Queue._sync_not_empty_notifier / _sync_not_full_notifier in a worker
\* thread of the executor: `with self._sync_mutex: cond.notify()`.  close()
\* cancels the asyncio future at once but the executor's own future only in a
\* later loop callback, so a job cancelled by close() can still run.
ExecutorRun(k, st) ==
    /\ k \in {"sync_ne", "sync_nf"} /\ st \in {"sched", "cancelled"}
    /\ sync_mutex = FREE
    /\ pending[k][st] > 0
    /\ pending' = [pending EXCEPT ![k][st] = @ - 1, ![k].done = @ + 1]
    /\ IF k = "sync_ne"
       THEN /\ pc' = Notified(sync_not_empty, pc)
            /\ sync_not_empty' = Woken(sync_not_empty)
            /\ UNCHANGED sync_not_full
       ELSE /\ pc' = Notified(sync_not_full, pc)
            /\ sync_not_full' = Woken(sync_not_full)
            /\ UNCHANGED sync_not_empty
    /\ UNCHANGED <<fixed, core, flags, calls, locks, running, counts, asyncq,
                   call, res, slept, nOps>>

\* The done callback of a finished or cancelled job: self._pending.remove.
PendingRemove(k, st) ==
    /\ k \in JobKinds /\ st \in {"done", "cancelled"}
    /\ running = NoTask
    /\ pending[k][st] > 0
    /\ pending' = [pending EXCEPT ![k][st] = @ - 1]
    /\ UNCHANGED <<fixed, core, flags, calls, locks, running, counts, conds,
                   pc, call, res, slept, nOps>>

\* `if not self._closing: raise RuntimeError` of wait_closed
NotClosingNever == FALSE
NotClosing == ~closing

\* `await asyncio.sleep(0)`: the task yields and its next step is queued on
\* the loop behind the callbacks already handed to the loop.
Sleep0Skipped(cs, a) == <<a>> \o cs
Sleep0(cs, a) == Append(cs, a)

\* A task calls Queue.wait_closed(): the test of _closing, then the yield.
WaitClosedCall(a) ==
    /\ a \in Tasks /\ Idle(a) /\ running = NoTask
    /\ nOps' = nOps + 1
    /\ slept' = [slept EXCEPT ![a] = FALSE]
    /\ IF NotClosing
       THEN /\ pc' = [pc EXCEPT ![a] = "done"]
            /\ res' = [res EXCEPT ![a] = Ret("notclosing", 0)]
            /\ UNCHANGED calls
       ELSE /\ pc' = [pc EXCEPT ![a] = "wc_sleep"]
            /\ res' = [res EXCEPT ![a] = NoRes]
            /\ calls' = Sleep0(calls, a)
    /\ UNCHANGED <<fixed, core, flags, pending, locks, running, counts, conds, call>>

\* The loop resumes the task after the yield: `if not self._pending: return`,
\* else `await asyncio.wait(self._pending)`.
WaitClosedResume(a) ==
    /\ a \in Tasks /\ pc[a] = "wc_sleep"
    /\ running = NoTask /\ calls # <<>> /\ Head(calls) = a
    /\ calls' = Tail(calls)
    /\ IF pending = NoJobs
       THEN /\ pc' = [pc EXCEPT ![a] = "done"]
            /\ res' = [res EXCEPT ![a] = Ret("drained", 0)]
            /\ UNCHANGED slept
       ELSE /\ pc' = [pc EXCEPT ![a] = "wc_wait"]
            /\ slept' = [slept EXCEPT ![a] = TRUE]
            /\ UNCHANGED res
    /\ UNCHANGED <<fixed, core, flags, pending, locks, running, counts, conds,
                   call, nOps>>

\* asyncio.wait(self._pending) returns: every future it was given is done and
\* the done callbacks registered before its own (self._pending.remove) have
\* run.  Where this action is used no job is submitted once the wait has
\* begun, so that the futures given to the wait are all of _pending.
WaitClosedWake(a) ==
    /\ a \in Tasks /\ pc[a] = "wc_wait"
    /\ running = NoTask
    /\ pending = NoJobs
    /\ pc' = [pc EXCEPT ![a] = "done"]
    /\ res' = [res EXCEPT ![a] = Ret("drained", 0)]
    /\ UNCHANGED <<fixed, core, flags, jobs, locks, running, counts, conds,
                   call, slept, nOps>>

\* The positions from which a caller's step runs under _sync_mutex: the
\* step begins with the acquisition (`with parent._sync_not_full`, the return
\* of a thread's Condition.wait(), `parent._sync_mutex.acquire()`, `with
\* parent._sync_mutex`) and ends with the release.  A task's steps between
\* `parent._sync_mutex.release()` and the next `parent._sync_mutex.acquire()`
\* of put and get, which change its waiter count, do not.
HoldsMutex(at) ==
    at \in {"sp_lock", "sp_woken", "sp_expired", "sg_lock", "sg_woken", "sg_expired",
            "std_lock", "sj_lock", "sj_woken", "cl_lock",
            "ap_enter", "ag_enter", "apn_lock", "agn_lock", "atd_lock",
            "aj_lock", "aj_ready"}

\* ------------------------------------------------------- specifications
\* Every step that is not the start of a new call.
Internal ==
    \/ \E t \in Threads, late \in BOOLEAN : SyncPutEnter(t, late)
    \/ \E t \in Threads, late \in BOOLEAN : SyncGetEnter(t, late)
    \/ \E t \in Threads : SyncWaitTimeout(t)
    \/ \E t \in Threads : SyncTaskDone(t)
    \/ \E t \in Threads : SyncJoinEnter(t)
    \/ \E p \in Procs : Close(p)
    \/ \E a \in Tasks : AsyncPutEnter(a)
    \/ \E a \in Tasks : AsyncGetEnter(a)
    \/ \E a \in Tasks : AsyncSuspend(a)
    \/ \E a \in Tasks : AsyncResume(a)
    \/ \E a \in Tasks : AsyncPutNowait(a)
    \/ \E a \in Tasks : AsyncGetNowait(a)
    \/ \E a \in Tasks : AsyncTaskDone(a)
    \/ \E a \in Tasks : AsyncJoinEnter(a)
    \/ \E a \in Tasks : AsyncJoinPoll(a)
    \/ LoopCall
    \/ \E k \in {"async_ne", "async_nf"} : AsyncNotifierRun(k)
    \/ \E k \in {"sync_ne", "sync_nf"}, st \in {"sched", "cancelled"} : ExecutorRun(k, st)
    \/ \E k \in JobKinds, st \in {"done", "cancelled"} : PendingRemove(k, st)

\* A behaviour starts at most MaxOps calls, with items drawn from Items.
ThreadCalls ==
    /\ nOps < MaxOps
    /\ \E t \in Threads, o \in SyncOps, it \in Items \cup {0}, m \in Modes \cup {"none"} :
          SyncCall(t, o, it, m)

TaskCalls ==
    /\ nOps < MaxOps
    /\ \E a \in Tasks, o \in AsyncOps, it \in Items \cup {0} : AsyncCall(a, o, it)

Next == ThreadCalls \/ TaskCalls \/ Internal

Spec == Init /\ [][Next]_vars

\* _async_mutex is held only by the task that occupies the loop thread.
LockDiscipline == async_mutex # FREE => running = async_mutex

TypeOK ==
    /\ maxsize \in 0..MaxCap
    /\ queue \in Seq(Items)
    /\ unfinished_tasks \in Int
    /\ sync_mutex \in Foreign \cup {FREE}
    /\ async_mutex \in Tasks \cup {FREE}
    /\ running \in Tasks \cup {NoTask}
    /\ sync_not_empty_waiting >= 0 /\ sync_not_full_waiting >= 0
    /\ async_not_empty_waiting >= 0 /\ async_not_full_waiting >= 0


\* Task-to-thread scenario: thread t1, the only consumer, calls the blocking
\* get() without timeout; the tasks call put() and put_nowait(), thread t2
\* calls put(); nobody calls close().  The consumer thread and the executor's
\* workers are scheduled fairly.
NextC2 ==
    \/ nOps < MaxOps /\ SyncCall("t1", "get", 0, "block")
    \/ /\ nOps < MaxOps
       /\ \E it \in Items, m \in {"nowait", "block"} : SyncCall("t2", "put", it, m)
    \/ \E late \in BOOLEAN : SyncPutEnter("t2", late)
    \/ /\ nOps < MaxOps
       /\ \E a \in Tasks, o \in {"put", "put_nowait"}, it \in Items : AsyncCall(a, o, it)
    \/ \E late \in BOOLEAN : SyncGetEnter("t1", late)
    \/ \E a \in Tasks : AsyncPutEnter(a)
    \/ \E a \in Tasks : AsyncPutNowait(a)
    \/ \E a \in Tasks : AsyncSuspend(a)
    \/ \E a \in Tasks : AsyncResume(a)
    \/ LoopCall
    \/ \E k \in {"async_ne", "async_nf"} : AsyncNotifierRun(k)
    \/ \E k \in {"sync_ne", "sync_nf"} : ExecutorRun(k, "sched")
    \/ \E k \in JobKinds : PendingRemove(k, "done")

SpecC2 ==
    /\ Init /\ [][NextC2]_vars
    /\ WF_vars(\E late \in BOOLEAN : SyncGetEnter("t1", late))
    /\ \A k \in {"sync_ne", "sync_nf"} : WF_vars(ExecutorRun(k, "sched"))

\* Priority scenario: an unbounded PriorityQueue; thread t1 and task a1 put
\* items of PrioItems and get them, through every put and get of both facades.
NextPQ ==
    \/ /\ nOps < MaxOpsPQ
       /\ \E it \in PrioItems \cup {0}, o \in {"put", "get"}, m \in {"nowait", "block"} :
             SyncCall("t1", o, it, m)
    \/ /\ nOps < MaxOpsPQ
       /\ \E it \in PrioItems \cup {0}, o \in {"put", "put_nowait", "get", "get_nowait"} :
             AsyncCall("a1", o, it)
    \/ \E late \in BOOLEAN : SyncPutEnter("t1", late)
    \/ \E late \in BOOLEAN : SyncGetEnter("t1", late)
    \/ AsyncPutEnter("a1")
    \/ AsyncGetEnter("a1")
    \/ AsyncSuspend("a1")
    \/ AsyncResume("a1")
    \/ AsyncPutNowait("a1")
    \/ AsyncGetNowait("a1")
    \/ LoopCall
    \/ AsyncNotifierRun("async_ne")
    \/ ExecutorRun("sync_ne", "sched")
    \/ \E k \in {"sync_ne", "async_ne"} : PendingRemove(k, "done")

SpecPQ == Constructed("priority", {0}) /\ [][NextPQ]_vars

\* Two-loop scenario: the tasks of the queue's loop and a thread use the
\* non-waiting and the waiting puts and gets, and a task of a second loop calls
\* the suspending facade once the queue is bound.
NextLoops ==
    \/ /\ nOps < MaxOps
       /\ \E it \in Items \cup {0}, o \in {"put", "get"} : SyncCall("t1", o, it, "nowait")
    \/ /\ nOps < MaxOps
       /\ \E a \in Tasks, it \in Items \cup {0},
             o \in {"put", "put_nowait", "get", "get_nowait"} : AsyncCall(a, o, it)
    \/ /\ nOps < MaxOps
       /\ \E b \in Foreign, o \in {"put", "put_nowait", "get", "get_nowait"} :
             ForeignCall(b, o)
    \/ \E late \in BOOLEAN : SyncPutEnter("t1", late)
    \/ \E late \in BOOLEAN : SyncGetEnter("t1", late)
    \/ \E a \in Tasks : AsyncPutEnter(a)
    \/ \E a \in Tasks : AsyncGetEnter(a)
    \/ \E a \in Tasks : AsyncSuspend(a)
    \/ \E a \in Tasks : AsyncResume(a)
    \/ \E a \in Tasks : AsyncPutNowait(a)
    \/ \E a \in Tasks : AsyncGetNowait(a)
    \/ LoopCall
    \/ \E k \in {"async_ne", "async_nf"} : AsyncNotifierRun(k)
    \/ \E k \in {"async_ne", "async_nf"} : PendingRemove(k, "done")

SpecLoops == Init /\ [][NextLoops]_vars

\* Shutdown scenario: a thread and the tasks put and get on the open queue;
\* close() is called when no call is in progress and nothing but
\* wait_closed() is called from then on; wait_closed() may also be called
\* before close().  The loop runs its callbacks and tasks fairly.
LoopStep ==
    \/ LoopCall
    \/ \E k \in {"async_ne", "async_nf"} : AsyncNotifierRun(k)
    \/ \E k \in JobKinds, st \in {"done", "cancelled"} : PendingRemove(k, st)
    \/ \E a \in Tasks : WaitClosedResume(a)
    \/ \E a \in Tasks : WaitClosedWake(a)

NextClose ==
    \/ /\ nOps < MaxOpsClose /\ ~closing
       /\ \E it \in {0, 1}, o \in {"put", "get"}, m \in {"nowait", "block", "timed"} :
             SyncCall("t1", o, it, m)
    \/ /\ nOps < MaxOpsClose /\ ~closing
       /\ \E a \in Tasks, it \in {0, 1}, o \in {"put", "get"} : AsyncCall(a, o, it)
    \/ /\ nOps < MaxOpsClose /\ \A p \in Procs : Idle(p)
       /\ \E a \in Tasks : AsyncCall(a, "close", 0)
    \/ /\ nOps < MaxOpsClose
       /\ \E a \in Tasks : WaitClosedCall(a)
    \/ \E late \in BOOLEAN : SyncPutEnter("t1", late)
    \/ \E late \in BOOLEAN : SyncGetEnter("t1", late)
    \/ SyncWaitTimeout("t1")
    \/ \E a \in Tasks : Close(a)
    \/ \E a \in Tasks : AsyncPutEnter(a)
    \/ \E a \in Tasks : AsyncGetEnter(a)
    \/ \E a \in Tasks : AsyncSuspend(a)
    \/ \E a \in Tasks : AsyncResume(a)
    \/ \E k \in {"sync_ne", "sync_nf"}, st \in {"sched", "cancelled"} : ExecutorRun(k, st)
    \/ LoopStep

SpecClose ==
    /\ Init /\ [][NextClose]_vars
    /\ WF_vars(LoopStep)

\* Every call of both facades, with the cancellation of suspended tasks.
NextItems == Next \/ \E a \in Tasks : AsyncCancel(a)

SpecItems == Init /\ [][NextItems]_vars

\* Cancellation scenario: the tasks call put() and get(), a thread calls the
\* non-waiting put and get, and a task suspended in a wait may be cancelled.
NextCancel ==
    \/ /\ nOps < MaxOps
       /\ \E it \in Items \cup {0}, o \in {"put", "get"} : SyncCall("t1", o, it, "nowait")
    \/ /\ nOps < MaxOps
       /\ \E a \in Tasks, it \in Items \cup {0}, o \in {"put", "get"} : AsyncCall(a, o, it)
    \/ \E late \in BOOLEAN : SyncPutEnter("t1", late)
    \/ \E late \in BOOLEAN : SyncGetEnter("t1", late)
    \/ \E a \in Tasks : AsyncPutEnter(a)
    \/ \E a \in Tasks : AsyncGetEnter(a)
    \/ \E a \in Tasks : AsyncSuspend(a)
    \/ \E a \in Tasks : AsyncResume(a)
    \/ \E a \in Tasks : AsyncCancel(a)
    \/ LoopCall
    \/ \E k \in {"async_ne", "async_nf"} : AsyncNotifierRun(k)
    \/ \E k \in {"async_ne", "async_nf"} : PendingRemove(k, "done")

SpecCancel == Init /\ [][NextCancel]_vars

\* ------------------------------------------------------------- properties
IsPrefix(s, t) == Len(s) <= Len(t) /\ \A i \in 1..Len(s) : s[i] = t[i]

\* No step but the start of a new call is possible: every call in progress is
\* parked in an untimed wait, no callback and no notification job is left.
Quiescent ==
    /\ calls = <<>>
    /\ pending = NoJobs
    /\ \A p \in Procs :
         /\ pc[p] \in {"idle", "done", "sp_wait", "sg_wait", "sj_wait",
                       "ap_wait", "ag_wait", "aj_wait"}
         /\ mode[p] # "timed"

QuiescentIsStuck == Quiescent <=> ~ENABLED Internal

\* C1: a task suspended in async_q.get() on an open queue does not stay
\* suspended once a thread's put has made the buffer non-empty and nothing
\* else is left to run (the other tasks never called anything).
C1_ThreadPutWakesTask ==
    ~ \E a \in Tasks :
        /\ pc[a] = "ag_wait" /\ ~closing /\ Qsize > 0 /\ Quiescent
        /\ \A b \in Tasks \ {a} : pc[b] = "idle"

\* C2: a thread blocked in sync_q.get() without timeout on an open queue, the
\* only consumer, eventually returns the item a task committed.
C2_TaskPutWakesThread ==
    \A v \in Items :
        (pc["t1"] = "sg_wait" /\ queue # <<>> /\ Head(queue) = v)
            ~> (pc["t1"] = "done" /\ res["t1"] = Ret("item", v))

C2_Witness ==
    /\ pc["t1"] = "done" /\ res["t1"].tag = "item" /\ slept["t1"]
    /\ pending["sync_ne"].done > 0

\* C3: a bounded queue never holds more than maxsize items.
C3_Bounded == maxsize > 0 => Qsize <= maxsize

C3_Witness ==
    /\ maxsize > 0 /\ Qsize = maxsize
    /\ \E p \in Procs : pc[p] = "done" /\ res[p].tag = "ok" /\ slept[p]

\* C4: once close() has run, no put or get stays blocked or suspended in its
\* not-full or not-empty wait when nothing else is left to run.
C4_CloseEndsWaits ==
    ~ (/\ closing /\ Quiescent
       /\ \E p \in Procs : pc[p] \in {"sp_wait", "sg_wait", "ap_wait", "ag_wait"})

\* C5: a call started while the queue is closing fails with the closed-queue
\* error without waiting (join of the suspending facade after taking the
\* mutex) and changes neither the buffer, unfinished_tasks nor a waiter count.
C5_ClosedFailsFast ==
    [][closing =>
        /\ nOps' # nOps =>
             /\ UNCHANGED <<queue, unfinished_tasks, counts>>
             /\ \A p \in Procs :
                  (pc'[p] # pc[p] \/ res'[p] # res[p]) =>
                     \/ pc'[p] = "done" /\ res'[p].tag = "closed"
                     \/ pc'[p] \in {"aj_lock", "cl_lock"}
        /\ \A a \in Tasks :
             pc[a] = "aj_lock" /\ pc'[a] # "aj_lock" =>
                /\ pc'[a] = "done" /\ res'[a].tag = "closed"
                /\ UNCHANGED <<queue, unfinished_tasks, counts>>
      ]_vars

C5_Witness ==
    /\ closing
    /\ \E t \in Threads, a \in Tasks :
         /\ pc[t] = "done" /\ res[t].tag = "closed" /\ ~slept[t]
         /\ pc[a] = "done" /\ res[a].tag = "closed" /\ ~slept[a]

\* C6: on an open bounded queue no producer stays blocked or suspended in its
\* not-full wait while the queue has a free slot and nothing else is left to
\* run.
C6_NotFullWakeup ==
    ~ \E p \in Procs :
        /\ pc[p] \in {"sp_wait", "ap_wait"}
        /\ ~closing /\ maxsize > 0 /\ ~IsFull /\ Quiescent

\* C7: a join() of either facade that returned normally read
\* unfinished_tasks == 0 at its last check under the mutex.
C7_JoinOnlyAtZero ==
    \A p \in Procs : pc[p] = "done" /\ res[p].tag = "joined" => res[p].val = 0

C7_Witness ==
    \E p \in Procs :
        /\ pc[p] = "done" /\ res[p].tag = "joined" /\ slept[p]
        /\ Len(putLog) > 0

\* C8: a task suspended in async_q.join() on an open queue does not stay
\* suspended once unfinished_tasks is zero and nothing else is left to run.
C8_JoinResumes ==
    ~ \E a \in Tasks :
        pc[a] = "aj_wait" /\ ~closing /\ unfinished_tasks = 0 /\ Quiescent

\* C9: unfinished_tasks is the number of committed puts minus the number of
\* successful task_done calls and never negative; a task_done at zero fails
\* with the too-many-completions error and leaves it at zero.
C9_UnfinishedCount ==
    /\ [](unfinished_tasks = Len(putLog) - nDone /\ unfinished_tasks >= 0)
    /\ [][\A p \in Procs :
            /\ pc[p] \in {"std_lock", "atd_lock"} /\ pc'[p] = "done"
            /\ unfinished_tasks = 0
            => res'[p].tag = "toomany" /\ unfinished_tasks' = 0
         ]_vars

C9_Witness ==
    /\ Len(putLog) = 1 /\ nDone = 1 /\ unfinished_tasks = 0
    /\ \E p \in Procs : pc[p] = "done" /\ res[p].tag = "toomany"

\* C10: the items the gets returned, in commit order, are a prefix of the
\* items the puts committed, in commit order.
C10_Fifo == IsPrefix(getLog, putLog)

C10_Witness ==
    /\ Len(putLog) >= 2 /\ putLog[1] # putLog[2]
    /\ Len(getLog) >= 1

\* C11: every get of a PriorityQueue, of either facade, returns an item that
\* is minimal among the items in the buffer when the get commits and takes
\* exactly that item out; after puts of 3, 1, 2 three gets return 1, 2, 3.
C11_PriorityOrder ==
    /\ [][Len(getLog') > Len(getLog) =>
            LET got == getLog'[Len(getLog')]
            IN /\ \A i \in 1..Len(queue) : got <= queue[i]
               /\ Len(queue') = Len(queue) - 1
               /\ \A v \in PrioItems :
                    Len(SelectSeq(queue', LAMBDA x : x = v))
                      = Len(SelectSeq(queue, LAMBDA x : x = v)) - (IF v = got THEN 1 ELSE 0)
         ]_vars
    /\ [][/\ putLog = <<3, 1, 2>> /\ IsPrefix(getLog, <<1, 2, 3>>)
          /\ Len(getLog') > Len(getLog)
          => IsPrefix(getLog', <<1, 2, 3>>)
         ]_vars

C11_Witness ==
    /\ putLog = <<3, 1, 2>> /\ getLog = <<1, 2, 3>>
    /\ res["t1"].tag = "item" /\ res["a1"].tag = "item"

\* C12: a timed put whose deadline passes with the queue still full fails
\* with Full, a timed get on a still empty queue with Empty; a put or get of the
\* blocking facade that fails with Full or Empty leaves the buffer and
\* unfinished_tasks alone, and the thread-side waiter counts count exactly the
\* threads that are inside a wait, so the failed call is no longer counted.
C12_TimedOut ==
    /\ [](/\ sync_not_full_waiting =
               Cardinality({t \in Threads : pc[t] \in {"sp_wait", "sp_woken", "sp_expired"}})
          /\ sync_not_empty_waiting =
               Cardinality({t \in Threads : pc[t] \in {"sg_wait", "sg_woken", "sg_expired"}}))
    /\ [][\A t \in Threads :
            /\ pc[t] = "sp_expired" /\ pc'[t] # pc[t] /\ IsFull
                 => pc'[t] = "done" /\ res'[t].tag = "full"
            /\ pc[t] = "sg_expired" /\ pc'[t] # pc[t] /\ Qsize = 0
                 => pc'[t] = "done" /\ res'[t].tag = "empty"
            /\ pc[t] # "done" /\ pc'[t] = "done" /\ res'[t].tag \in {"full", "empty"}
                 => UNCHANGED <<queue, unfinished_tasks, putLog, getLog>>
         ]_vars

C12_Witness ==
    \E t \in Threads :
        /\ pc[t] = "done" /\ res[t].tag = "full" /\ slept[t]
        /\ maxsize > 0 /\ Qsize = maxsize /\ sync_not_full_waiting = 0

\* C13: a put or get of the blocking facade called with block=True and a
\* negative timeout fails with the invalid-timeout error and leaves the buffer
\* and unfinished_tasks unchanged, whatever the capacity and the content.
C13_NegativeTimeout ==
    [][\A t \in Threads :
          mode[t] = "neg" /\ pc[t] \in {"sp_lock", "sg_lock"} /\ pc'[t] # pc[t]
          => /\ pc'[t] = "done" /\ res'[t].tag = "badtimeout"
             /\ UNCHANGED <<queue, unfinished_tasks>>
      ]_vars

\* C14: the queue's loop, once bound, never changes, and it is bound by a
\* call of a task of that loop; a put, get, put_nowait or get_nowait of the
\* suspending facade made from another loop on the open queue fails with the
\* wrong-loop error and leaves the buffer and unfinished_tasks unchanged.
C14_WrongScheduler ==
    [][/\ loop # NoLoop => loop' = loop
       /\ loop' # loop => \E a \in Tasks : pc[a] # pc'[a] /\ loop' = TheLoop
       /\ \A b \in Foreign :
            \* the step is a call of b: a call starts and nobody else moves
            ~closing /\ nOps' # nOps /\ (\A p \in Procs \ {b} : pc'[p] = pc[p])
            => /\ pc'[b] = "done" /\ res'[b].tag = "wrongloop"
               /\ UNCHANGED <<queue, unfinished_tasks>>
      ]_vars

\* C20: no thread or task that is outside a call holds _sync_mutex.
C20_MutexReleased ==
    \A p \in Procs : pc[p] \in {"idle", "done"} => sync_mutex # p

\* C15: wait_closed() called while the queue is not closing fails at once
\* with the ordering error: the task does not yield or suspend, and the
\* closing flag, the pending jobs, the buffer and the counters are unchanged.
C15_WaitClosedBeforeClose ==
    [][\A a \in Tasks :
          ~closing /\ WaitClosedCall(a)
          => /\ pc'[a] = "done" /\ res'[a].tag = "notclosing"
             /\ UNCHANGED <<closing, jobs, queue, unfinished_tasks, counts, running>>
      ]_vars

C15_Witness ==
    \E a \in Tasks : pc[a] = "done" /\ res[a].tag = "notclosing" /\ ~closing

\* C16: with no put or get in progress at close() or started after it,
\* wait_closed() eventually returns, and once it has returned the queue is
\* closing and no notification job is pending (`closed` is true).
C16_WaitClosedDrains ==
    /\ [](\A a \in Tasks :
            pc[a] = "done" /\ res[a].tag = "drained" => closing /\ pending = NoJobs)
    /\ \A a \in Tasks :
         (pc[a] = "wc_sleep") ~> (pc[a] = "done" /\ res[a].tag = "drained")

C16_Witness ==
    \E a \in Tasks : pc[a] = "done" /\ res[a].tag = "drained" /\ slept[a]

\* C17: while the queue is not closing, the finished signal is set only if
\* unfinished_tasks is zero (every state of the model lies outside the
\* critical sections of put and task_done).
C17_FinishedAgrees == ~closing /\ finished => unfinished_tasks = 0

\* C18: every step that changes the buffer, unfinished_tasks, the closing
\* flag or one of the four waiter counts is taken by a thread or task that
\* holds _sync_mutex.
C18_WritesUnderMutex ==
    [][queue' # queue \/ unfinished_tasks' # unfinished_tasks
         \/ closing' # closing \/ counts' # counts
       => \E p \in Procs : pc'[p] # pc[p] /\ HoldsMutex(pc[p])
      ]_vars

\* C19: the cancellation of a task suspended in put() or get() of the
\* suspending facade takes the task out of its waiter count exactly once (the
\* task-side counts count exactly the tasks inside a wait), leaves the other
\* count, the buffer and unfinished_tasks unchanged, and ends with neither
\* _async_mutex nor _sync_mutex held by the task.
C19_CancelCleansUp ==
    /\ [](/\ async_not_full_waiting =
               Cardinality({a \in Tasks : pc[a] \in {"ap_wait", "ap_notified"}})
          /\ async_not_empty_waiting =
               Cardinality({a \in Tasks : pc[a] \in {"ag_wait", "ag_notified"}}))
    /\ [][\A a \in Tasks :
            pc[a] # "done" /\ pc'[a] = "done" /\ res'[a].tag = "cancelled"
            => /\ IF pc[a] \in {"ap_wait", "ap_notified"}
                  THEN /\ async_not_full_waiting' = async_not_full_waiting - 1
                       /\ UNCHANGED async_not_empty_waiting
                  ELSE /\ async_not_empty_waiting' = async_not_empty_waiting - 1
                       /\ UNCHANGED async_not_full_waiting
               /\ async_mutex' # a /\ sync_mutex' # a /\ sync_mutex' = sync_mutex
               /\ UNCHANGED <<queue, unfinished_tasks, putLog, getLog>>
         ]_vars

C19_Witness ==
    \E a, b \in Tasks :
        /\ a # b
        /\ pc[a] = "done" /\ res[a].tag = "cancelled"
        /\ pc[b] \in {"ap_wait", "ag_wait"}
        /\ async_not_full_waiting + async_not_empty_waiting = 1

\* C21: once the closing flag is set, the buffer and unfinished_tasks never
\* change again.
C21_NoCommitAfterClose ==
    [][closing => UNCHANGED <<queue, unfinished_tasks>>]_vars

\* C22: once `closed` is true (the queue is closing and no notification job
\* is pending) it stays true: no job is added to the pending set afterwards.
C22_ClosedMonotonic ==
    [][closing /\ pending = NoJobs => closing' /\ pending' = NoJobs]_vars

\* C23: items are neither lost nor duplicated: each item was committed by
\* puts as often as it was returned by gets plus as often as it is in the
\* buffer, and a call that ends with Full, Empty, the closed-queue error or
\* its cancellation leaves the buffer and both histories unchanged.
C23_NoLossNoDuplication ==
    /\ [](\A v \in Items :
            Len(SelectSeq(putLog, LAMBDA x : x = v))
              = Len(SelectSeq(getLog, LAMBDA x : x = v))
                + Len(SelectSeq(queue, LAMBDA x : x = v)))
    /\ [][\A p \in Procs :
            /\ pc'[p] = "done" /\ (pc[p] # "done" \/ res'[p] # res[p])
            /\ res'[p].tag \in {"full", "empty", "closed", "cancelled"}
            => UNCHANGED <<queue, putLog, getLog>>
         ]_vars

C23_Witness ==
    /\ \E a \in Tasks : pc[a] = "done" /\ res[a].tag = "cancelled"
    /\ \E p \in Procs : pc[p] = "done" /\ res[p].tag = "item"
    /\ Len(putLog) = 1 /\ Len(getLog) = 1 /\ queue = <<>>

====
